---- MODULE Spec2Model ----
(***************************************************************************)
(* Know-Ball: the trivia round of src/src/sql_runner.rs.                   *)
(*                                                                         *)
(* run_trivia fetches the rows of a question, gives every row a point      *)
(* value (calculate_point_values) and then plays the guess loop on the     *)
(* lines of standard input.                                                *)
(*                                                                         *)
(* Strings are sequences of one-character strings.  A row is the pair of   *)
(* its answer column (column 0) and its stat column (the last column); the *)
(* stat is kept as the SQLite value the row was fetched with.  Stats are   *)
(* integer valued (Value::Integer) or NULL; f64 arithmetic on them is      *)
(* exact and is written with integers.                                     *)
(***************************************************************************)
EXTENDS Integers, Sequences, FiniteSets

VARIABLES rows, point_values, guessed, correct, strikes, score,
          pc, line, nread, out, ret,
          input, parsed, years, session_score, questions_played, mout,
          generated

\* the locals of run_trivia and the standard input it shares with main
round_vars == <<rows, point_values, guessed, correct, strikes, score,
                line, nread, out, ret>>

\* the locals of main, the request parse_query returned, the year range
\* random_year_range drew and the question generate_sql_for_kind built
main_vars == <<input, parsed, years, session_score, questions_played, mout,
               generated>>

vars == <<rows, point_values, guessed, correct, strikes, score,
          pc, line, nread, out, ret,
          input, parsed, years, session_score, questions_played, mout,
          generated>>

(***************************************************************************)
(* Bounds                                                                  *)
(***************************************************************************)
\* longest board of a played round
MaxRows == 3
\* longest result set handed to the scoring function alone
MaxScoreRows == 6
\* number of lines standard input holds before end-of-file
MaxLines == 5
\* most leading '_'-separated parts of a catalog key used as a base code
MaxStemParts == 3
\* most blanks around a code handed to parse_query
MaxPad == 1

(***************************************************************************)
(* Program constants                                                       *)
(***************************************************************************)
\* u32::MAX (4294967295) is beyond the integers TLC computes with; the one
\* place that produces it, the cast of +inf, writes it as U32Saturated
U32Saturated == -1
TotalPoints == 1000
MaxStrikes == 3
START_YEAR == 2000
END_YEAR == 2024

(***************************************************************************)
(* Strings                                                                 *)
(***************************************************************************)
UpperLetters ==
    <<"A", "B", "C", "D", "E", "F", "G", "H", "I", "J", "K", "L", "M", "N",
      "O", "P", "Q", "R", "S", "T", "U", "V", "W", "X", "Y", "Z">>

LowerLetters ==
    <<"a", "b", "c", "d", "e", "f", "g", "h", "i", "j", "k", "l", "m", "n",
      "o", "p", "q", "r", "s", "t", "u", "v", "w", "x", "y", "z">>

ToLower ==
    [c \in {UpperLetters[i] : i \in DOMAIN UpperLetters} |->
        LowerLetters[CHOOSE i \in DOMAIN UpperLetters : UpperLetters[i] = c]]

ToUpper ==
    [c \in {LowerLetters[i] : i \in DOMAIN LowerLetters} |->
        UpperLetters[CHOOSE i \in DOMAIN LowerLetters : LowerLetters[i] = c]]

\* char::to_lowercase / to_ascii_lowercase on ASCII characters
LowerChar(c) == IF c \in DOMAIN ToLower THEN ToLower[c] ELSE c

\* char::to_ascii_uppercase
UpperChar(c) == IF c \in DOMAIN ToUpper THEN ToUpper[c] ELSE c

to_lowercase(s) == [i \in 1..Len(s) |-> LowerChar(s[i])]

IsSpace(c) == c = " "

RECURSIVE trim_start(_)
trim_start(s) ==
    IF s # <<>> /\ IsSpace(Head(s)) THEN trim_start(Tail(s)) ELSE s

RECURSIVE trim_end(_)
trim_end(s) ==
    IF s # <<>> /\ IsSpace(s[Len(s)])
    THEN trim_end(SubSeq(s, 1, Len(s) - 1))
    ELSE s

trim(s) == trim_end(trim_start(s))

\* str::contains: needle occurs in hay as a contiguous run
contains(hay, needle) ==
    \E k \in 0..(Len(hay) - Len(needle)) :
        SubSeq(hay, k + 1, k + Len(needle)) = needle

eq_case_sensitive(a, b) == a = b

eq_ignore_ascii_case(a, b) ==
    /\ Len(a) = Len(b)
    /\ \A i \in 1..Len(a) : LowerChar(a[i]) = LowerChar(b[i])

RevealWord == <<"r", "e", "v", "e", "a", "l">>

(***************************************************************************)
(* Scoring: calculate_point_values                                         *)
(***************************************************************************)
Abs(x) == IF x < 0 THEN -x ELSE x

\* Value -> String (run_trivia) followed by str::parse::<f64>:
\* "NULL" does not parse, the decimal text of an integer parses to it.
\* The Option is a sequence of length 0 or 1.
ParseStatDefaultZero(v) == IF v.null THEN <<0>> ELSE <<v.val>>

ParseStat(v) == IF v.null THEN <<>> ELSE <<v.val>>

RECURSIVE ParseStats(_)
\* filter_map over the rows: the parsed stats, unparseable ones dropped
ParseStats(rs) ==
    IF rs = <<>> THEN <<>>
    ELSE ParseStat(Head(rs).stat) \o ParseStats(Tail(rs))

RECURSIVE SeqSum(_)
SeqSum(s) == IF s = <<>> THEN 0 ELSE Head(s) + SeqSum(Tail(s))

SeqMax(s) == CHOOSE m \in {s[i] : i \in 1..Len(s)} :
                 \A i \in 1..Len(s) : s[i] <= m

SeqMin(s) == CHOOSE m \in {s[i] : i \in 1..Len(s)} :
                 \A i \in 1..Len(s) : m <= s[i]

EqualSplitRoundedUp(total) == (TotalPoints + total - 1) \div total

\* 1000 / total as u32
EqualSplit(total) == TotalPoints \div total

\* stats.iter().all(|&s| (s - stats[0]).abs() < 0.01)
AllSame(stats) == \A i \in 1..Len(stats) : Abs(stats[i] - stats[1]) * 100 < 1

\* the inverse weights: max_stat - s + min_stat, or all 1 when max = min
Inverses(stats) ==
    LET max_stat == SeqMax(stats)
        min_stat == SeqMin(stats)
    IN  IF Abs(max_stat - min_stat) * 100 < 1
        THEN [i \in 1..Len(stats) |-> 1]
        ELSE [i \in 1..Len(stats) |-> max_stat - stats[i] + min_stat]

\* ((inv / sum) * 1000.0).round() as u32
\* a zero sum gives +inf, -inf or NaN; the cast saturates: +inf to
\* u32::MAX, negatives and NaN to 0; round() is half away from zero.
\* On the stat values of the model the f64 quotient rounds as the exact one.
Normalize(inv, sum) ==
    IF sum = 0
    THEN IF inv > 0 THEN U32Saturated ELSE 0
    ELSE LET n == IF sum < 0 THEN -inv ELSE inv
             d == Abs(sum)
         IN  IF n <= 0 THEN 0
             ELSE (2 * TotalPoints * n + d) \div (2 * d)

calculate_point_values(rs) ==
    LET total == Len(rs)
        stats == ParseStats(rs)
    IN  IF rs = <<>> THEN <<>>
        ELSE IF stats = <<>> \/ Len(stats) # total
        THEN [i \in 1..total |-> EqualSplit(total)]
        ELSE IF AllSame(stats)
        THEN [i \in 1..total |-> EqualSplit(total)]
        ELSE LET inverses == Inverses(stats)
                 sum == SeqSum(inverses)
             IN  [i \in 1..total |-> Normalize(inverses[i], sum)]

(***************************************************************************)
(* The guess loop of run_trivia                                            *)
(***************************************************************************)
total == Len(rows)

\* the answer column of row i, lower-cased
ans_lc(i) == to_lowercase(rows[i].name)

\* ans_lc.contains(&guess_lc) || guess_lc.contains(&ans_lc)
Matches(a_lc, guess_lc) == contains(a_lc, guess_lc) \/ contains(guess_lc, a_lc)

already_got_one_way(guess_lc) ==
    \E i \in 1..total : contains(ans_lc(i), guess_lc) /\ guessed[i]

\* the "already guessed" scan: some matching row is marked guessed
already_got(guess_lc) ==
    \E i \in 1..total : Matches(ans_lc(i), guess_lc) /\ guessed[i]

found_idx_last(guess_lc) ==
    LET hits == {i \in 1..total : ~guessed[i] /\ Matches(ans_lc(i), guess_lc)}
    IN  IF hits = {} THEN 0
        ELSE CHOOSE i \in hits : \A j \in hits : j <= i

\* the "try to match" scan: the first unguessed matching row, 0 for None
found_idx(guess_lc) ==
    LET hits == {i \in 1..total : ~guessed[i] /\ Matches(ans_lc(i), guess_lc)}
    IN  IF hits = {} THEN 0
        ELSE CHOOSE i \in hits : \A j \in hits : i <= j

LoopDoneLate == correct = total \/ strikes > MaxStrikes

LoopDoneOnlyWin == correct = total

LoopDoneOnlyLoss == strikes >= MaxStrikes

\* the loop's exit test
LoopDone == correct = total \/ strikes >= MaxStrikes

FinalMessageNoReveal ==
    IF correct = total THEN "Perfect" ELSE "ThreeStrikes"

\* the message after the final board
FinalMessage ==
    IF correct = total THEN "Perfect"
    ELSE IF strikes >= MaxStrikes THEN "ThreeStrikes"
    ELSE "StoppingEarly"

MarkCorrectFirstRowPoints(i) ==
    /\ guessed' = [guessed EXCEPT ![i] = TRUE]
    /\ correct' = correct + 1
    /\ score' = score + point_values[1]
    /\ out' = "Correct"
    /\ UNCHANGED strikes

MarkCorrectDoubleCount(i) ==
    /\ guessed' = [guessed EXCEPT ![i] = TRUE]
    /\ correct' = correct + 2
    /\ score' = score + point_values[i]
    /\ out' = "Correct"
    /\ UNCHANGED strikes

\* Some(i): the row is revealed and paid
MarkCorrect(i) ==
    /\ guessed' = [guessed EXCEPT ![i] = TRUE]
    /\ correct' = correct + 1
    /\ score' = score + point_values[i]
    /\ out' = "Correct"
    /\ UNCHANGED strikes

MarkStrikeTwice ==
    /\ strikes' = strikes + 2
    /\ out' = "Strike"
    /\ UNCHANGED <<guessed, correct, score>>

MarkStrikeFree ==
    /\ out' = "Strike"
    /\ UNCHANGED <<guessed, correct, strikes, score>>

\* None: a strike
MarkStrike ==
    /\ strikes' = strikes + 1
    /\ out' = "Strike"
    /\ UNCHANGED <<guessed, correct, score>>

FinishReturnsCorrect ==
    /\ pc' = "returned"
    /\ out' = FinalMessage
    /\ ret' = <<[score |-> correct, total |-> total]>>
    /\ UNCHANGED <<guessed, correct, strikes, score>>

\* leaving the loop: final board, final message, Ok(TriviaResult)
Finish ==
    /\ pc' = "returned"
    /\ out' = FinalMessage
    /\ ret' = <<[score |-> score, total |-> total]>>
    /\ UNCHANGED <<guessed, correct, strikes, score>>

(***************************************************************************)
(* Inputs                                                                  *)
(***************************************************************************)
Null == [null |-> TRUE, val |-> 0]
Integer(i) == [null |-> FALSE, val |-> i]

\* rows a played round is built from: answer name and stat
RowPool ==
    { [name |-> <<"A", "b">>, stat |-> Integer(3)],
      [name |-> <<"C", "b">>, stat |-> Integer(1)],
      [name |-> <<"B">>,      stat |-> Integer(0)],
      [name |-> <<"C", "a">>, stat |-> Null] }

\* the sequences over S of length 0..n
SeqsUpTo(S, n) == UNION {[1..k -> S] : k \in 0..n}

Boards == SeqsUpTo(RowPool, MaxRows)

\* stats of the result sets the scoring function is applied to alone
ScoreStats == {-2, 0, 1, 2, 2000, 2001}

ScoreBoards ==
    SeqsUpTo({[name |-> <<"b">>, stat |-> Integer(v)] : v \in ScoreStats},
             MaxScoreRows)

\* lines the player can type (without the line terminator)
InputLines ==
    { <<" ">>, <<"b">>, <<"a", "B">>, <<" ", "C", "a", "b", " ">>,
      <<"c">>, <<"x">>, <<" ", "R", "e", "V", "e", "a", "L">> }

(***************************************************************************)
(* run_trivia                                                              *)
(***************************************************************************)
\* main before its first prompt
MainStart ==
    /\ input = <<>>
    /\ parsed = <<>>
    /\ years = <<>>
    /\ session_score = 0
    /\ questions_played = 0
    /\ mout = ""
    /\ generated = <<>>

InitWith(boards) ==
    /\ rows \in boards
    /\ point_values = <<>>
    /\ guessed = <<>>
    /\ correct = 0
    /\ strikes = 0
    /\ score = 0
    /\ pc = "fetched"
    /\ line = <<>>
    /\ nread = 0
    /\ out = ""
    /\ ret = <<>>
    /\ MainStart

Init == InitWith(Boards)

\* rows fetched: return at once on an empty result set, else set the board
\* up and compute the point values
Begin ==
    /\ pc = "fetched"
    /\ IF rows = <<>>
       THEN /\ pc' = "returned"
            /\ out' = "NoRows"
            /\ ret' = <<[score |-> 0, total |-> 0]>>
            /\ UNCHANGED <<point_values, guessed>>
       ELSE /\ pc' = "loop"
            /\ guessed' = [i \in 1..total |-> FALSE]
            /\ point_values' = calculate_point_values(rows)
            /\ UNCHANGED <<out, ret>>
    /\ UNCHANGED <<rows, correct, strikes, score, line, nread>>
    /\ UNCHANGED main_vars

\* top of the loop with the round decided: break
LoopExit ==
    /\ pc = "loop"
    /\ LoopDone
    /\ Finish
    /\ UNCHANGED <<rows, point_values, line, nread>>
    /\ UNCHANGED main_vars

\* read_line fails: report and continue
ReadError ==
    /\ pc = "loop"
    /\ ~LoopDone
    /\ nread < MaxLines
    /\ nread' = nread + 1
    /\ line' = <<>>
    /\ out' = "ReadError"
    /\ UNCHANGED <<rows, point_values, guessed, correct, strikes, score, pc, ret>>
    /\ UNCHANGED main_vars

IterateMatchFirst(l) ==
    LET guess == trim(l)
        guess_lc == to_lowercase(guess)
    IN  IF guess = <<>>
        THEN /\ out' = ""
             /\ UNCHANGED <<guessed, correct, strikes, score, pc, ret>>
        ELSE IF eq_ignore_ascii_case(guess, RevealWord)
        THEN Finish
        ELSE IF found_idx(guess_lc) # 0
        THEN MarkCorrect(found_idx(guess_lc)) /\ UNCHANGED <<pc, ret>>
        ELSE IF already_got(guess_lc)
        THEN /\ out' = "Duplicate"
             /\ UNCHANGED <<guessed, correct, strikes, score, pc, ret>>
        ELSE MarkStrike /\ UNCHANGED <<pc, ret>>

IterateNoEmptyCheck(l) ==
    LET guess == trim(l)
        guess_lc == to_lowercase(guess)
    IN  IF eq_ignore_ascii_case(guess, RevealWord)
        THEN Finish
        ELSE IF already_got(guess_lc)
        THEN /\ out' = "Duplicate"
             /\ UNCHANGED <<guessed, correct, strikes, score, pc, ret>>
        ELSE /\ IF found_idx(guess_lc) # 0
                THEN MarkCorrect(found_idx(guess_lc))
                ELSE MarkStrike
             /\ UNCHANGED <<pc, ret>>

\* one iteration of the loop on the line l
Iterate(l) ==
    LET guess == trim(l)
        guess_lc == to_lowercase(guess)
    IN  IF guess = <<>>
        THEN /\ out' = ""
             /\ UNCHANGED <<guessed, correct, strikes, score, pc, ret>>
        ELSE IF eq_ignore_ascii_case(guess, RevealWord)
        THEN Finish
        ELSE IF already_got(guess_lc)
        THEN /\ out' = "Duplicate"
             /\ UNCHANGED <<guessed, correct, strikes, score, pc, ret>>
        ELSE /\ IF found_idx(guess_lc) # 0
                THEN MarkCorrect(found_idx(guess_lc))
                ELSE MarkStrike
             /\ UNCHANGED <<pc, ret>>

\* read_line returns a line, one of those standard input can hold
ReadLineFrom(stdin) ==
    /\ pc = "loop"
    /\ ~LoopDone
    /\ nread < MaxLines
    /\ \E l \in stdin :
          /\ line' = l
          /\ Iterate(l)
    /\ nread' = nread + 1
    /\ UNCHANGED <<rows, point_values>>
    /\ UNCHANGED main_vars

ReadLine == ReadLineFrom(InputLines)

\* read_line at end of file: Ok(0), the guess is empty
ReadEof ==
    /\ pc = "loop"
    /\ ~LoopDone
    /\ nread = MaxLines
    /\ line' = <<>>
    /\ Iterate(<<>>)
    /\ UNCHANGED <<rows, point_values, nread>>
    /\ UNCHANGED main_vars

Next == Begin \/ LoopExit \/ ReadError \/ ReadLine \/ ReadEof

Spec == Init /\ [][Next]_vars

\* the round as the process runs it: while some step is possible, a step is
\* taken
SpecFair == Spec /\ WF_vars(Next)

\* the scoring function alone, on longer result sets
InitScore == InitWith(ScoreBoards \ {<<>>})

SpecScore == InitScore /\ [][Begin]_vars

\* rounds on boards of distinct names whose stats all parse
NamedPool ==
    { [name |-> <<"C", "a">>, stat |-> Integer(1)],
      [name |-> <<"C", "b">>, stat |-> Integer(1)],
      [name |-> <<"A", "b">>, stat |-> Integer(3)] }

NamedBoards == SeqsUpTo(NamedPool, MaxRows)

InitNamed == InitWith(NamedBoards)

SpecNamed == InitNamed /\ [][Next]_vars

\* no round running, nothing read
RoundIdle ==
    /\ rows = <<>>
    /\ point_values = <<>>
    /\ guessed = <<>>
    /\ correct = 0
    /\ strikes = 0
    /\ score = 0
    /\ line = <<>>
    /\ nread = 0
    /\ out = ""
    /\ ret = <<>>

\* main idle, no round running
Idle == RoundIdle /\ MainStart

(***************************************************************************)
(* parse_query and the catalog (src/src/questions.rs)                      *)
(***************************************************************************)
\* the 32 team codes
TEAMS == <<
    <<"B", "U", "F">>,
    <<"M", "I", "A">>,
    <<"N", "E">>,
    <<"N", "Y", "J">>,
    <<"B", "A", "L">>,
    <<"C", "I", "N">>,
    <<"C", "L", "E">>,
    <<"P", "I", "T">>,
    <<"H", "O", "U">>,
    <<"I", "N", "D">>,
    <<"J", "A", "X">>,
    <<"T", "E", "N">>,
    <<"D", "E", "N">>,
    <<"K", "C">>,
    <<"L", "V">>,
    <<"L", "A", "C">>,
    <<"D", "A", "L">>,
    <<"N", "Y", "G">>,
    <<"P", "H", "I">>,
    <<"W", "A", "S">>,
    <<"C", "H", "I">>,
    <<"D", "E", "T">>,
    <<"G", "B">>,
    <<"M", "I", "N">>,
    <<"A", "T", "L">>,
    <<"C", "A", "R">>,
    <<"N", "O">>,
    <<"T", "B">>,
    <<"A", "R", "I">>,
    <<"L", "A", "R">>,
    <<"S", "F">>,
    <<"S", "E", "A">> >>

\* build_registry: the catalog, key and kind of every entry
Registry == {
    [kind |-> "RecYdsTeamYearRange",
     code |-> <<"r", "e", "c", "y", "d", "s", "_", "y", "e", "a", "r", "r",
               "a", "n", "g", "e", "_", "T", "E", "A", "M">>],
    [kind |-> "RushYdsTeamYearRange",
     code |-> <<"r", "u", "s", "h", "y", "d", "s", "_", "y", "e", "a", "r",
               "r", "a", "n", "g", "e", "_", "T", "E", "A", "M">>],
    [kind |-> "PassYdsTeamSinceStart",
     code |-> <<"p", "a", "s", "s", "y", "d", "s", "_", "T", "E", "A", "M">>],
    [kind |-> "Last10PassersTeam",
     code |-> <<"l", "a", "s", "t", "1", "0", "p", "a", "s", "s", "e", "r",
               "s", "_", "T", "E", "A", "M">>],
    [kind |-> "Last10RushersTeam",
     code |-> <<"l", "a", "s", "t", "1", "0", "r", "u", "s", "h", "e", "r",
               "s", "_", "T", "E", "A", "M">>],
    [kind |-> "Last10ReceiversTeam",
     code |-> <<"l", "a", "s", "t", "1", "0", "r", "e", "c", "e", "i", "v",
               "e", "r", "s", "_", "T", "E", "A", "M">>],
    [kind |-> "Last10IntThrowersTeam",
     code |-> <<"l", "a", "s", "t", "1", "0", "i", "n", "t", "t", "h", "r",
               "o", "w", "e", "r", "s", "_", "T", "E", "A", "M">>],
    [kind |-> "Last10TdPassersTeam",
     code |-> <<"l", "a", "s", "t", "1", "0", "t", "d", "p", "a", "s", "s",
               "e", "r", "s", "_", "T", "E", "A", "M">>],
    [kind |-> "Last10NonQbPassersTeam",
     code |-> <<"l", "a", "s", "t", "1", "0", "n", "o", "n", "q", "b", "p",
               "_", "T", "E", "A", "M">>],
    [kind |-> "Last10MidWrsTeam",
     code |-> <<"l", "a", "s", "t", "1", "0", "m", "i", "d", "w", "r", "s",
               "_", "T", "E", "A", "M">>],
    [kind |-> "Last10MidRbsTeam",
     code |-> <<"l", "a", "s", "t", "1", "0", "m", "i", "d", "r", "b", "s",
               "_", "T", "E", "A", "M">>],
    [kind |-> "Top10FumblesLostYearRange",
     code |-> <<"t", "o", "p", "1", "0", "f", "u", "m", "l", "o", "s", "t",
               "_", "y", "e", "a", "r", "r", "a", "n", "g", "e">>],
    [kind |-> "Top10RushTdYearRange",
     code |-> <<"t", "o", "p", "1", "0", "r", "u", "s", "h", "t", "d", "_",
               "y", "e", "a", "r", "r", "a", "n", "g", "e">>],
    [kind |-> "Top10RecTdYearRange",
     code |-> <<"t", "o", "p", "1", "0", "r", "e", "c", "t", "d", "_", "y",
               "e", "a", "r", "r", "a", "n", "g", "e">>],
    [kind |-> "Top10PassTdYearRange",
     code |-> <<"t", "o", "p", "1", "0", "p", "a", "s", "s", "t", "d", "_",
               "y", "e", "a", "r", "r", "a", "n", "g", "e">>],
    [kind |-> "Top10IntThrownYearRange",
     code |-> <<"t", "o", "p", "1", "0", "i", "n", "t", "t", "h", "r", "o",
               "w", "n", "_", "y", "e", "a", "r", "r", "a", "n", "g", "e">>],
    [kind |-> "Top10RushingQbYearRange",
     code |-> <<"t", "o", "p", "1", "0", "r", "u", "s", "h", "i", "n", "g",
               "q", "b", "_", "y", "e", "a", "r", "r", "a", "n", "g", "e">>],
    [kind |-> "Top10ReceivingTeYearRange",
     code |-> <<"t", "o", "p", "1", "0", "r", "e", "c", "e", "i", "v", "i",
               "n", "g", "t", "e", "_", "y", "e", "a", "r", "r", "a", "n",
               "g", "e">>],
    [kind |-> "Top10ReceivingRbYearRange",
     code |-> <<"t", "o", "p", "1", "0", "r", "e", "c", "e", "i", "v", "i",
               "n", "g", "r", "b", "_", "y", "e", "a", "r", "r", "a", "n",
               "g", "e">>],
    [kind |-> "Top10RushingWrYearRange",
     code |-> <<"t", "o", "p", "1", "0", "r", "u", "s", "h", "i", "n", "g",
               "w", "r", "_", "y", "e", "a", "r", "r", "a", "n", "g", "e">>],
    [kind |-> "Top10ReceptionsYearRange",
     code |-> <<"t", "o", "p", "1", "0", "r", "e", "c", "e", "p", "t", "i",
               "o", "n", "s", "_", "y", "e", "a", "r", "r", "a", "n", "g",
               "e">>],
    [kind |-> "Top10CompPercYear",
     code |-> <<"t", "o", "p", "1", "0", "c", "o", "m", "p", "p", "e", "r",
               "c", "_", "y", "e", "a", "r">>],
    [kind |-> "Top10PassYdsYear",
     code |-> <<"t", "o", "p", "1", "0", "p", "a", "s", "s", "y", "d", "s",
               "_", "y", "e", "a", "r">>],
    [kind |-> "Top10YpcYear",
     code |-> <<"t", "o", "p", "1", "0", "y", "p", "c", "_", "y", "e", "a",
               "r">>],
    [kind |-> "Top10YprYear",
     code |-> <<"t", "o", "p", "1", "0", "y", "p", "r", "_", "y", "e", "a",
               "r">>],
    [kind |-> "Top10RushersYear",
     code |-> <<"t", "o", "p", "1", "0", "r", "u", "s", "h", "e", "r", "s",
               "_", "y", "e", "a", "r">>],
    [kind |-> "Top10ReceiversYear",
     code |-> <<"t", "o", "p", "1", "0", "r", "e", "c", "e", "i", "v", "e",
               "r", "s", "_", "y", "e", "a", "r">>],
    [kind |-> "Top10RushingQbYear",
     code |-> <<"t", "o", "p", "1", "0", "r", "u", "s", "h", "i", "n", "g",
               "q", "b", "_", "y", "e", "a", "r">>],
    [kind |-> "Top10ReceivingTeYear",
     code |-> <<"t", "o", "p", "1", "0", "r", "e", "c", "e", "i", "v", "i",
               "n", "g", "t", "e", "_", "y", "e", "a", "r">>] }

to_ascii_uppercase(s) == [i \in 1..Len(s) |-> UpperChar(s[i])]

to_ascii_lowercase(s) == [i \in 1..Len(s) |-> LowerChar(s[i])]

\* str::split('_')
RECURSIVE split(_)
split(s) ==
    IF \E i \in 1..Len(s) : s[i] = "_"
    THEN LET i == CHOOSE k \in 1..Len(s) :
                      s[k] = "_" /\ \A j \in 1..(k - 1) : s[j] # "_"
         IN  <<SubSeq(s, 1, i - 1)>> \o split(SubSeq(s, i + 1, Len(s)))
    ELSE <<s>>

\* [&str]::join("_")
RECURSIVE join(_)
join(parts) ==
    IF parts = <<>> THEN <<>>
    ELSE IF Len(parts) = 1 THEN parts[1]
    ELSE parts[1] \o <<"_">> \o join(Tail(parts))

TeamSuffix == <<"_", "t", "e", "a", "m">>

team_of_case_sensitive(parts) ==
    LET last == parts[Len(parts)]
    IN  IF \E i \in DOMAIN TEAMS : TEAMS[i] = last THEN <<last>> ELSE <<>>

team_of_any_token(parts) ==
    LET last == to_ascii_uppercase(parts[Len(parts)])
    IN  IF Len(parts) > 1 THEN <<last>> ELSE <<>>

\* the last part, upper-cased, when it is one of TEAMS: Some(last) / None
team_of(parts) ==
    LET last == to_ascii_uppercase(parts[Len(parts)])
    IN  IF \E i \in DOMAIN TEAMS : TEAMS[i] = last THEN <<last>> ELSE <<>>

\* the base code: the parts before the team, or the whole input
base_of(raw, parts, team) ==
    IF team # <<>> THEN join(SubSeq(parts, 1, Len(parts) - 1)) ELSE raw

candidates_always_team(base, team) ==
    LET base_lower == to_ascii_lowercase(base)
    IN  {base_lower, base_lower \o TeamSuffix}

\* the keys looked up: base_lower, and base_lower_team when a team was given
candidates(base, team) ==
    LET base_lower == to_ascii_lowercase(base)
    IN  {base_lower} \cup
        (IF team # <<>> THEN {base_lower \o TeamSuffix} ELSE {})

IsPrefix(a, b) == Len(a) <= Len(b) /\ SubSeq(b, 1, Len(a)) = a

parse_query_prefix_match(inp) ==
    LET raw   == trim(inp)
        parts == split(raw)
        team  == team_of(parts)
        cands == candidates(base_of(raw, parts, team), team)
        found == {r \in Registry :
                     \E c \in cands : IsPrefix(c, to_ascii_lowercase(r.code))}
    IN  IF found = {}
        THEN {<<>>}
        ELSE {<<[kind |-> r.kind, team |-> team]>> : r \in found}

\* the results parse_query can return: None is <<>>, Some(r) is <<r>>.  The
\* catalog is a HashMap, so find returns any one of the matching entries
parse_query(inp) ==
    LET raw   == trim(inp)
        parts == split(raw)
        team  == team_of(parts)
        cands == candidates(base_of(raw, parts, team), team)
        found == {r \in Registry : to_ascii_lowercase(r.code) \in cands}
    IN  IF found = {}
        THEN {<<>>}
        ELSE {<<[kind |-> r.kind, team |-> team]>> : r \in found}

\* the inputs parse_query is called on: every catalog key and every prefix
\* of one that ends before a '_', followed by a trailing token or none,
\* in four spellings of letter case or padded with blanks
Stems ==
    UNION { {join(SubSeq(split(r.code), 1, k)) :
                k \in {j \in 1..MaxStemParts : j <= Len(split(r.code))}} :
            r \in Registry }

Tokens ==
    { <<>>,
      <<"_", "P", "I", "T">>,
      <<"_", "N", "o">>,
      <<"_", "X", "Y", "Z">>,
      <<"_", "P", "I">>,
      <<"_", "P", "I", "T", "T">>,
      <<"_">>,
      <<"_", "P", "I", "T", "_">>,
      <<"_", "_", "S", "F">> }

swap_case(s) ==
    [i \in 1..Len(s) |->
        IF s[i] \in DOMAIN ToLower THEN ToLower[s[i]] ELSE UpperChar(s[i])]

Spellings(s) ==
    {s, to_ascii_uppercase(s), to_ascii_lowercase(s), swap_case(s)}

Blanks(n) == [i \in 1..n |-> " "]

ParseInputs ==
    { <<"P", "I", "T">>, <<>> } \cup
    UNION { Spellings(stem \o tok) \cup
            { Blanks(n) \o stem \o tok \o Blanks(n) : n \in 1..MaxPad } :
                stem \in Stems, tok \in Tokens }

InitParse ==
    /\ pc = "parse"
    /\ RoundIdle
    /\ input \in ParseInputs
    /\ parsed = <<>>
    /\ years = <<>>
    /\ session_score = 0
    /\ questions_played = 0
    /\ mout = ""
    /\ generated = <<>>

\* one call of parse_query on the input
ParseQuery ==
    /\ pc = "parse"
    /\ parsed' \in parse_query(input)
    /\ pc' = "parsed"
    /\ UNCHANGED <<round_vars, input, years, session_score,
                   questions_played, mout, generated>>

SpecParse == InitParse /\ [][ParseQuery]_vars

(***************************************************************************)
(* random_year_range (src/src/questions.rs)                                *)
(***************************************************************************)
random_year_range_same_year ==
    /\ pc = "generate"
    /\ \E start \in START_YEAR..(END_YEAR - 1) :
          \E end \in start..END_YEAR :
              years' = <<start, end>>
    /\ UNCHANGED <<pc, round_vars, input, parsed, session_score,
                   questions_played, mout, generated>>

\* start = gen_range(START_YEAR..END_YEAR), end = gen_range(start+1..=END_YEAR)
random_year_range ==
    /\ pc = "generate"
    /\ \E start \in START_YEAR..(END_YEAR - 1) :
          \E end \in (start + 1)..END_YEAR :
              years' = <<start, end>>
    /\ UNCHANGED <<pc, round_vars, input, parsed, session_score,
                   questions_played, mout, generated>>

InitYearRange == pc = "generate" /\ Idle

(***************************************************************************)
(* generate_sql_for_kind (src/src/questions.rs)                            *)
(*                                                                         *)
(* A generated question is kept as the parameters its two format strings   *)
(* are filled with: the team and the seasons named in the prompt, and the  *)
(* team and the seasons the WHERE clause of the query of that kind filters *)
(* on.  No team is <<>>, the team t is <<t>>.                              *)
(***************************************************************************)
TeamYearRangeKinds == {"RecYdsTeamYearRange", "RushYdsTeamYearRange"}

TeamSinceStartKinds == {"PassYdsTeamSinceStart"}

Last10TeamKinds ==
    {"Last10PassersTeam", "Last10RushersTeam", "Last10ReceiversTeam",
     "Last10IntThrowersTeam", "Last10TdPassersTeam",
     "Last10NonQbPassersTeam", "Last10MidWrsTeam", "Last10MidRbsTeam"}

YearRangeKinds ==
    {"Top10FumblesLostYearRange", "Top10RushTdYearRange",
     "Top10RecTdYearRange", "Top10PassTdYearRange",
     "Top10IntThrownYearRange", "Top10RushingQbYearRange",
     "Top10ReceivingTeYearRange", "Top10ReceivingRbYearRange",
     "Top10RushingWrYearRange", "Top10ReceptionsYearRange"}

YearKinds ==
    {"Top10CompPercYear", "Top10PassYdsYear", "Top10YpcYear", "Top10YprYear",
     "Top10RushersYear", "Top10ReceiversYear", "Top10RushingQbYear",
     "Top10ReceivingTeYear"}

\* the pairs random_year_range can return
YearRanges ==
    UNION { {<<start, end>> : end \in (start + 1)..END_YEAR} :
                start \in START_YEAR..(END_YEAR - 1) }

\* the years random_year can return
Years == START_YEAR..END_YEAR

\* the (question, sql) pairs the call can return
generate_sql_for_kind(kind, team_override) ==
    LET teams == IF team_override # <<>>
                 THEN {team_override[1]}
                 ELSE {TEAMS[i] : i \in DOMAIN TEAMS}
        Pair(t, y) == [q   |-> [team |-> t, years |-> y],
                       sql |-> [kind |-> kind, team |-> t, years |-> y]]
    IN  IF kind \in TeamYearRangeKinds
        THEN {Pair(<<t>>, y) : t \in teams, y \in YearRanges}
        ELSE IF kind \in TeamSinceStartKinds
        THEN {Pair(<<t>>, <<START_YEAR>>) : t \in teams}
        ELSE IF kind \in Last10TeamKinds
        THEN {Pair(<<t>>, <<>>) : t \in teams}
        ELSE IF kind \in YearRangeKinds
        THEN {Pair(<<>>, y) : y \in YearRanges}
        ELSE {Pair(<<>>, <<y>>) : y \in Years}

\* the codes a question is asked with: catalog keys and their bases, alone
\* or followed by a team code
RequestTokens ==
    { <<>>, <<"_", "P", "I", "T">>, <<"_", "s", "f">> }

RequestInputs == {stem \o tok : stem \in Stems, tok \in RequestTokens}

InitRequest ==
    /\ pc = "parse"
    /\ RoundIdle
    /\ input \in RequestInputs
    /\ parsed = <<>>
    /\ years = <<>>
    /\ session_score = 0
    /\ questions_played = 0
    /\ mout = ""
    /\ generated = <<>>

\* main's call of generate_sql_for_kind on the request parse_query returned
GenerateSql ==
    /\ pc = "parsed"
    /\ parsed # <<>>
    /\ \E g \in generate_sql_for_kind(parsed[1].kind, parsed[1].team) :
          generated' = <<g>>
    /\ pc' = "generated"
    /\ UNCHANGED <<round_vars, input, parsed, years, session_score,
                   questions_played, mout>>

NextRequest == ParseQuery \/ GenerateSql

SpecRequest == InitRequest /\ [][NextRequest]_vars

SpecYearRange == InitYearRange /\ [][random_year_range]_vars

(***************************************************************************)
(* main: the command loop (src/src/main.rs)                                *)
(***************************************************************************)
QuitWord == <<"q", "u", "i", "t">>
ExitWord == <<"e", "x", "i", "t">>
ScoreWord == <<"s", "c", "o", "r", "e">>
ListWord == <<"l", "i", "s", "t">>
StartWord == <<"s", "t", "a", "r", "t">>

\* result sets the database can answer a generated query with
SessionBoards ==
    { <<>>,
      <<[name |-> <<"C", "b">>, stat |-> Integer(1)]>>,
      <<[name |-> <<"A", "b">>, stat |-> Integer(3)],
        [name |-> <<"C", "b">>, stat |-> Integer(1)]>> }

\* lines standard input can hold in a session: commands, codes and guesses
SessionLines ==
    { <<" ">>,
      <<" ", "Q", "u", "i", "t">>,
      <<"e", "x", "i", "t">>,
      <<"s", "c", "o", "r", "e">>,
      <<"l", "i", "s", "t">>,
      <<"S", "T", "A", "R", "T">>,
      <<"l", "a", "s", "t", "1", "0", "p", "a", "s", "s", "e", "r", "s", "_", "P", "I", "T">>,
      <<"l", "a", "s", "t", "1", "0", "p", "a", "s", "s", "e", "r", "s", "_", "X", "Y", "Z">>,
      <<"c">>, <<"a", "B">>, <<"x">>,
      <<"R", "E", "V", "E", "A", "L">> }

\* the call of run_trivia up to the fetch of the rows: Err(e) when the
\* database refuses the query, else the rows are in memory.  The database
\* may answer any generated query with any of SessionBoards, so the session
\* does not keep the query text
CallRunTrivia(shown) ==
    \/ /\ mout' = "SqlError"
       /\ UNCHANGED <<pc, rows, point_values, guessed, correct, strikes,
                      score, line, out, ret>>
    \/ /\ mout' = shown
       /\ pc' = "fetched"
       /\ rows' \in SessionBoards
       /\ point_values' = <<>>
       /\ guessed' = <<>>
       /\ correct' = 0
       /\ strikes' = 0
       /\ score' = 0
       /\ line' = <<>>
       /\ out' = ""
       /\ ret' = <<>>

\* main stays at its prompt
Reprompt(shown) ==
    /\ mout' = shown
    /\ UNCHANGED <<pc, rows, point_values, guessed, correct, strikes,
                   score, line, out, ret>>

\* one pass of main's loop on the line l, up to the call of run_trivia
MainCommand(l) ==
    LET raw    == trim(l)
        lc_cmd == to_lowercase(raw)
    IN  IF raw = <<>>
        THEN Reprompt("") /\ UNCHANGED parsed
        ELSE IF lc_cmd = QuitWord \/ lc_cmd = ExitWord
        THEN /\ mout' = "Summary"
             /\ pc' = "exited"
             /\ UNCHANGED <<parsed, rows, point_values, guessed, correct,
                            strikes, score, line, out, ret>>
        ELSE IF lc_cmd = ScoreWord
        THEN Reprompt("Score") /\ UNCHANGED parsed
        ELSE IF lc_cmd = ListWord
        THEN Reprompt("List") /\ UNCHANGED parsed
        ELSE IF lc_cmd = StartWord
        THEN /\ IF Registry = {}
                THEN Reprompt("NoQuestions")
                ELSE CallRunTrivia("RandomCode")
             /\ UNCHANGED parsed
        ELSE \E p \in parse_query(raw) :
                /\ parsed' = p
                /\ IF p # <<>>
                   THEN CallRunTrivia("Code")
                   ELSE IF \E r \in Registry :
                               to_ascii_lowercase(r.code) = lc_cmd
                   THEN CallRunTrivia("CanonCode")
                   ELSE Reprompt("Unknown")

\* read_line fails at the prompt: report and continue
MainReadError ==
    /\ pc = "prompt"
    /\ nread < MaxLines
    /\ nread' = nread + 1
    /\ input' = <<>>
    /\ mout' = "ReadError"
    /\ UNCHANGED <<pc, rows, point_values, guessed, correct, strikes, score,
                   line, out, ret, parsed, years, session_score,
                   questions_played, generated>>

\* read_line returns a line at the prompt
MainReadLine ==
    /\ pc = "prompt"
    /\ nread < MaxLines
    /\ \E l \in SessionLines :
          /\ input' = l
          /\ MainCommand(l)
    /\ nread' = nread + 1
    /\ UNCHANGED <<years, session_score, questions_played, generated>>

\* read_line at end of file at the prompt: Ok(0), the command is empty
MainReadEof ==
    /\ pc = "prompt"
    /\ nread = MaxLines
    /\ input' = <<>>
    /\ MainCommand(<<>>)
    /\ UNCHANGED <<nread, years, session_score, questions_played, generated>>

MainReturnAssigns ==
    /\ pc = "returned"
    /\ pc' = "prompt"
    /\ IF ret[1].total > 0
       THEN /\ session_score' = ret[1].score
            /\ questions_played' = questions_played + 1
       ELSE UNCHANGED <<session_score, questions_played>>
    /\ rows' = <<>>
    /\ point_values' = <<>>
    /\ guessed' = <<>>
    /\ correct' = 0
    /\ strikes' = 0
    /\ score' = 0
    /\ line' = <<>>
    /\ UNCHANGED <<nread, out, ret, input, parsed, years, mout, generated>>

MainReturnCountsEmpty ==
    /\ pc = "returned"
    /\ pc' = "prompt"
    /\ session_score' = session_score + ret[1].score
    /\ questions_played' = questions_played + 1
    /\ rows' = <<>>
    /\ point_values' = <<>>
    /\ guessed' = <<>>
    /\ correct' = 0
    /\ strikes' = 0
    /\ score' = 0
    /\ line' = <<>>
    /\ UNCHANGED <<nread, out, ret, input, parsed, years, mout, generated>>

\* run_trivia returned Ok(result): the totals take a round that had rows,
\* the locals of run_trivia are gone
MainReturn ==
    /\ pc = "returned"
    /\ pc' = "prompt"
    /\ IF ret[1].total > 0
       THEN /\ session_score' = session_score + ret[1].score
            /\ questions_played' = questions_played + 1
       ELSE UNCHANGED <<session_score, questions_played>>
    /\ rows' = <<>>
    /\ point_values' = <<>>
    /\ guessed' = <<>>
    /\ correct' = 0
    /\ strikes' = 0
    /\ score' = 0
    /\ line' = <<>>
    /\ UNCHANGED <<nread, out, ret, input, parsed, years, mout, generated>>

RoundReadLine == ReadLineFrom(SessionLines)

InitMain == pc = "prompt" /\ Idle

NextMain ==
    \/ MainReadError
    \/ MainReadLine
    \/ MainReadEof
    \/ Begin
    \/ LoopExit
    \/ ReadError
    \/ RoundReadLine
    \/ ReadEof
    \/ MainReturn

SpecMain == InitMain /\ [][NextMain]_vars

(***************************************************************************)
(* Properties of the scoring function (SpecScore)                          *)
(***************************************************************************)
Scored == pc = "loop"

StatOf(i) == rows[i].stat.val

AllParse == \A i \in 1..Len(rows) : ~rows[i].stat.null

\* a > b on u32 point values, U32Saturated standing for u32::MAX
PointsGreater(a, b) ==
    /\ a # b
    /\ \/ a = U32Saturated
       \/ b # U32Saturated /\ a > b

\* C1: a result set with at least one row gets one point value per row, and
\* the values sum to 1000 within 2
C1_SumWithinTwo ==
    Scored =>
        /\ Len(point_values) = Len(rows)
        /\ \A i \in 1..Len(point_values) : point_values[i] # U32Saturated
        /\ Abs(SeqSum(point_values) - 1000) <= 2

\* C2: of two rows with distinct stats the one with the smaller stat has the
\* strictly larger point value
C2_SmallerStatStrictlyMore ==
    (Scored /\ AllParse) =>
        \A i, j \in 1..Len(rows) :
            StatOf(i) < StatOf(j) => PointsGreater(point_values[i], point_values[j])

\* C3: when every row has the same stat, every row gets 1000 divided by the
\* row count, integer division
C3_EqualStatsEqualSplit ==
    (Scored /\ AllParse /\ \A i \in 1..Len(rows) : StatOf(i) = StatOf(1)) =>
        /\ Len(point_values) = Len(rows)
        /\ \A i \in 1..Len(rows) : point_values[i] = 1000 \div Len(rows)

C3_Witness ==
    /\ Scored
    /\ Len(rows) = 6
    /\ \A i \in 1..Len(rows) : StatOf(i) = 2000
    /\ point_values = <<166, 166, 166, 166, 166, 166>>

\* C4: when the stats all parse and are not all equal, every inverse weight
\* max - value + min is strictly positive
C4_InversesPositive ==
    (Scored /\ AllParse /\ \E i \in 1..Len(rows) : StatOf(i) # StatOf(1)) =>
        \A i \in 1..Len(rows) : Inverses(ParseStats(rows))[i] > 0

(***************************************************************************)
(* Properties of the round (Spec)                                          *)
(***************************************************************************)
\* C5: when some row's stat does not parse, scoring does not fail: every row
\* gets the equal split 1000 / rowCount and the round is played as usual
C5_UnparseableEqualSplit ==
    (pc # "fetched" /\ \E i \in 1..Len(rows) : rows[i].stat.null) =>
        /\ Len(point_values) = Len(rows)
        /\ \A i \in 1..Len(rows) : point_values[i] = 1000 \div Len(rows)
        /\ Len(guessed) = Len(rows)
        /\ pc = "returned" => ret = <<[score |-> score, total |-> Len(rows)]>>

C5_Witness ==
    /\ pc = "returned"
    /\ out = "Perfect"
    /\ Len(rows) = 3
    /\ rows[2].stat.null /\ ~rows[1].stat.null /\ ~rows[3].stat.null
    /\ StatOf(1) # StatOf(3)
    /\ score = 999

\* C6: in every state of a round 0 <= correctCount <= rowCount and
\* 0 <= strikeCount <= 3
C6_CountersInRange ==
    /\ 0 <= correct /\ correct <= Len(rows)
    /\ 0 <= strikes /\ strikes <= 3

C6_Witness ==
    /\ pc = "returned"
    /\ strikes = 3
    /\ Len(rows) = 3
    /\ correct = 2

\* the step consumes a line of input (not a failed read)
ReadsLine == nread' = nread + 1 /\ out' # "ReadError"

\* the guess of the line the step consumes: trimmed and lower-cased
GuessRead == to_lowercase(trim(line'))

RevealEntered == ReadsLine /\ GuessRead = RevealWord

\* the guess the step consumes matches row i in either direction
Hit(i) == contains(ans_lc(i), GuessRead) \/ contains(GuessRead, ans_lc(i))

\* the step consumes a guess: a line that is neither empty nor the command
GuessEntered == ReadsLine /\ GuessRead # <<>> /\ GuessRead # RevealWord

DuplicateEntered == GuessEntered /\ \E i \in 1..Len(rows) : guessed[i] /\ Hit(i)

\* the unguessed rows the guess matches
Hits == {i \in 1..Len(rows) : ~guessed[i] /\ Hit(i)}

\* C7: the round leaves Playing exactly when correctCount = rowCount, or
\* strikeCount = 3, or the reveal command is entered; once the round is
\* decided no further line is read
C7_EndsExactlyWhenDecided ==
    [][pc = "loop" =>
          LET decided == correct = Len(rows) \/ strikes = 3
          IN  /\ pc' # "loop" <=> (decided \/ RevealEntered)
              /\ decided => nread' = nread /\ line' = line]_vars

C7_Witness ==
    /\ pc = "returned"
    /\ out = "StoppingEarly"
    /\ correct = 1
    /\ strikes = 2
    /\ nread = 4

\* C8: a guess contained in, or containing, the lower-cased name of a row
\* already guessed is reported as a duplicate and changes neither the
\* counters, nor the score, nor any guessed flag
C8_DuplicateChangesNothing ==
    [][(pc = "loop" /\ DuplicateEntered) =>
          /\ out' = "Duplicate"
          /\ pc' = "loop"
          /\ UNCHANGED <<strikes, correct, score, guessed>>]_vars

C8_Witness ==
    /\ pc = "loop"
    /\ out = "Duplicate"
    /\ line = <<" ", "C", "a", "b", " ">>
    /\ Len(rows) = 2
    /\ rows[1].name = <<"A", "b">> /\ guessed[1]
    /\ rows[2].name = <<"C", "a">> /\ ~guessed[2]
    /\ strikes = 0

\* C9: a non-duplicate guess reveals the first row, in row order, that is
\* not yet guessed and matches in either direction, and no other row
C9_FirstMatchRevealed ==
    [][(pc = "loop" /\ GuessEntered /\ ~DuplicateEntered) =>
          IF Hits = {}
          THEN guessed' = guessed
          ELSE \E i \in Hits :
                  /\ \A j \in Hits : i <= j
                  /\ guessed' = [guessed EXCEPT ![i] = TRUE]]_vars

C9_Witness ==
    /\ pc = "loop"
    /\ out = "Correct"
    /\ line = <<"b">>
    /\ Len(rows) = 3
    /\ rows[1].name = <<"C", "a">>
    /\ rows[2].name = <<"A", "b">>
    /\ rows[3].name = <<"C", "b">>
    /\ guessed = <<FALSE, TRUE, FALSE>>

C11_NoMatchIsOneStrike ==
    [][(pc = "loop" /\ GuessEntered /\ ~DuplicateEntered /\ Hits = {}) =>
          /\ strikes' = strikes + 1
          /\ out' = "Strike"
          /\ UNCHANGED <<correct, score, guessed>>]_vars

C11_Witness ==
    /\ pc = "loop"
    /\ out = "Strike"
    /\ line = <<"x">>
    /\ strikes = 2
    /\ correct = 1
    /\ score = 750

\* C12: the reveal command, in any letter case, ends a round that is being
\* played at once as Revealed: no strike, no row marked, and the score
\* returned is the score held before the command
C12_RevealEndsRound ==
    [][(pc = "loop" /\ RevealEntered) =>
          /\ pc' = "returned"
          /\ out' = "StoppingEarly"
          /\ ret' = <<[score |-> score, total |-> Len(rows)]>>
          /\ UNCHANGED <<strikes, correct, guessed, score>>]_vars

C12_Witness ==
    /\ pc = "returned"
    /\ out = "StoppingEarly"
    /\ line = <<" ", "R", "e", "V", "e", "a", "L">>
    /\ point_values = <<250, 750>>
    /\ guessed = <<TRUE, FALSE>>
    /\ strikes = 1
    /\ ret = <<[score |-> 250, total |-> 2]>>

\* C13: on a board of 3 rows, three guesses that match no row end the round
\* as Lost with strikeCount 3, correctCount 0 and score 0, and the round
\* reads no fourth line
C13_ThreeMissesLose ==
    [][(pc = "loop" /\ Len(rows) = 3 /\ correct = 0) =>
          /\ (strikes = 2 /\ GuessEntered /\ Hits = {}) =>
                 strikes' = 3 /\ correct' = 0 /\ score' = 0
          /\ strikes = 3 =>
                 /\ pc' = "returned"
                 /\ out' = "ThreeStrikes"
                 /\ ret' = <<[score |-> 0, total |-> 3]>>
                 /\ nread' = nread /\ line' = line
                 /\ strikes' = 3 /\ correct' = 0]_vars

C13_Witness ==
    /\ pc = "returned"
    /\ out = "ThreeStrikes"
    /\ Len(rows) = 3
    /\ nread = 3
    /\ strikes = 3
    /\ correct = 0
    /\ ret = <<[score |-> 0, total |-> 3]>>

C18_YearRangeValid ==
    years # <<>> =>
        /\ Len(years) = 2
        /\ START_YEAR <= years[1]
        /\ years[2] <= END_YEAR
        /\ years[2] >= years[1] + 1

C18_Witness == years = <<END_YEAR - 1, END_YEAR>>

(***************************************************************************)
(* Properties of parse_query (SpecParse)                                   *)
(***************************************************************************)
\* where the last '_' of s is, 0 when it has none
LastUnderscore(s) ==
    IF \E i \in 1..Len(s) : s[i] = "_"
    THEN CHOOSE i \in 1..Len(s) :
             s[i] = "_" /\ \A j \in (i + 1)..Len(s) : s[j] # "_"
    ELSE 0

LastToken(s) == SubSeq(s, LastUnderscore(s) + 1, Len(s))

IsTeamCode(t) == \E i \in DOMAIN TEAMS : TEAMS[i] = to_ascii_uppercase(t)

\* the base code of the claim: what stands before the team code, or all
BaseCode(s) ==
    IF IsTeamCode(LastToken(s)) THEN SubSeq(s, 1, LastUnderscore(s) - 1) ELSE s

KeysFor(s) ==
    {r \in Registry :
        \/ eq_ignore_ascii_case(r.code, BaseCode(s))
        \/ /\ IsTeamCode(LastToken(s))
           /\ eq_ignore_ascii_case(r.code, BaseCode(s) \o TeamSuffix)}

\* C15: parse_query returns a request exactly when the catalog has a key
\* equal, ignoring case, to the base code or (only with a team code as the
\* last token) to the base code followed by _team; the request carries that
\* key's kind and the team code upper-cased, or no team
C15_ParseMatchesCatalog ==
    pc = "parsed" =>
        LET s == trim(input)
        IN  /\ parsed # <<>> <=> KeysFor(s) # {}
            /\ parsed # <<>> =>
                  /\ parsed[1].kind \in {r.kind : r \in KeysFor(s)}
                  /\ parsed[1].team =
                        IF IsTeamCode(LastToken(s))
                        THEN <<to_ascii_uppercase(LastToken(s))>>
                        ELSE <<>>

C15_Witness ==
    /\ pc = "parsed"
    /\ input = <<"l", "a", "s", "t", "1", "0", "p", "a", "s", "s", "e", "r",
                 "s", "_", "P", "I", "T">>
    /\ parsed = <<[kind |-> "Last10PassersTeam", team |-> <<<<"P", "I", "T">>>>]>>

FlipAt(s, k) ==
    [i \in 1..Len(s) |-> IF i = k THEN swap_case(<<s[i]>>)[1] ELSE s[i]]

CaseVariants(s) == Spellings(s) \cup {FlipAt(s, k) : k \in 1..Len(s)}

\* C17: parse_query is case-insensitive: respelling the input in another
\* letter case gives the same kind and the same upper-cased team, or no
\* match again
C17_ParseIgnoresCase ==
    pc = "parsed" =>
        \A v \in CaseVariants(input) :
            /\ parse_query(v) = parse_query(input)
            /\ parsed \in parse_query(v)

C17_Witness ==
    /\ pc = "parsed"
    /\ input = <<"L", "A", "S", "T", "1", "0", "P", "A", "S", "S", "E", "R",
                 "S", "_", "p", "i", "t">>
    /\ parsed = <<[kind |-> "Last10PassersTeam", team |-> <<<<"P", "I", "T">>>>]>>

(***************************************************************************)
(* Properties of the session (SpecMain)                                    *)
(***************************************************************************)
UnknownTeamLine ==
    <<"l", "a", "s", "t", "1", "0", "p", "a", "s", "s", "e", "r", "s",
      "_", "X", "Y", "Z">>

\* main reads the line l at its prompt
MainReads(l) == pc = "prompt" /\ nread' = nread + 1 /\ input' = l

\* C16: on last10passers_XYZ parse_query returns none, no round is started,
\* and the command loop prints the unknown-code message and keeps running
C16_UnknownTeamIsUnknownCode ==
    [][MainReads(UnknownTeamLine) =>
          /\ parse_query(input') = {<<>>}
          /\ parsed' = <<>>
          /\ mout' = "Unknown"
          /\ pc' = "prompt"
          /\ UNCHANGED <<rows, point_values, guessed, correct, strikes,
                         score, line, out, ret, session_score,
                         questions_played>>]_vars

C16_Witness ==
    /\ pc = "prompt"
    /\ input = UnknownTeamLine
    /\ mout = "Unknown"
    /\ nread = 3
    /\ questions_played = 1
    /\ session_score = 1000

C20_EmptyResultSkipsRound ==
    [][/\ (pc = "fetched" /\ rows = <<>>) =>
              /\ pc' = "returned"
              /\ ret' = <<[score |-> 0, total |-> 0]>>
              /\ UNCHANGED <<nread, line, session_score, questions_played>>
       /\ (pc = "returned" /\ rows = <<>>) =>
              /\ pc' = "prompt"
              /\ mout' # "SqlError"
              /\ UNCHANGED <<nread, line, session_score, questions_played>>
      ]_vars

C20_Witness ==
    /\ pc = "prompt"
    /\ out = "NoRows"
    /\ ret = <<[score |-> 0, total |-> 0]>>
    /\ nread = 3
    /\ questions_played = 1
    /\ session_score = 1000

(***************************************************************************)
(* Further properties of the round                                         *)
(***************************************************************************)
\* C22: the score of a round is out of 1000: score <= 1000 in every state
\* of a round and in the result run_trivia returns
C22_ScoreAtMost1000 ==
    /\ score <= TotalPoints
    /\ ret # <<>> => ret[1].score <= TotalPoints

\* the step is a read of a guess that fails, or a read at end-of-file
ReadFails ==
    /\ pc = "loop"
    /\ ~LoopDone
    /\ \/ nread' = nread + 1 /\ line' = <<>>
       \/ nread = MaxLines

\* C23: a failed read of a guess, the closed input stream included, is
\* reported and the iteration retried: counters, score and guessed flags are
\* unchanged and the round goes on instead of returning the failure
C23_ReadFailureReported ==
    [][ReadFails =>
          /\ out' = "ReadError"
          /\ pc' = "loop"
          /\ ret' = <<>>
          /\ UNCHANGED <<correct, strikes, score, guessed>>]_vars

\* C24: the duplicate check comes before the match attempt and looks at all
\* rows: a guess matching both a guessed row and a row not yet guessed is
\* reported as a duplicate, the hidden row stays hidden and no strike is
\* given
C24_DuplicateHidesSecondMatch ==
    [][(pc = "loop" /\ DuplicateEntered /\ Hits # {}) =>
          /\ out' = "Duplicate"
          /\ \A i \in Hits : ~guessed'[i]
          /\ UNCHANGED <<guessed, correct, strikes, score, pc>>]_vars

C24_Witness ==
    /\ pc = "loop"
    /\ out = "Duplicate"
    /\ line = <<"c">>
    /\ Len(rows) = 2
    /\ rows[1].name = <<"C", "b">>
    /\ rows[2].name = <<"C", "a">>
    /\ guessed = <<TRUE, FALSE>>
    /\ strikes = 0

\* a round with rows, being played or finished
InRound == pc \in {"loop", "returned"} /\ rows # <<>>

GuessedRows == {i \in 1..Len(guessed) : guessed[i]}

GuessedPoints ==
    SeqSum([i \in 1..Len(guessed) |-> IF guessed[i] THEN point_values[i] ELSE 0])

C26_WonAndLostExclusive ==
    rows # <<>> =>
        /\ ~(correct = Len(rows) /\ strikes = 3)
        /\ pc = "returned" =>
              /\ out \in {"Perfect", "ThreeStrikes", "StoppingEarly"}
              /\ out = "Perfect" <=> correct = Len(rows)
              /\ out = "ThreeStrikes" <=> strikes = 3

C26_Witness ==
    /\ pc = "returned"
    /\ out = "ThreeStrikes"
    /\ Len(rows) = 2
    /\ correct = 1
    /\ strikes = 3

\* C27: an empty or whitespace-only guess line is ignored: no strike, no row
\* revealed, no duplicate report, and correctCount, strikeCount, score and
\* the guessed flags stay
C27_BlankLineIgnored ==
    [][(pc = "loop" /\ ReadsLine /\ trim(line') = <<>>) =>
          /\ out' = ""
          /\ UNCHANGED <<guessed, correct, strikes, score, pc, ret>>]_vars

C27_Witness ==
    /\ pc = "loop"
    /\ nread = 3
    /\ line = <<" ">>
    /\ out = ""
    /\ correct = 1
    /\ strikes = 1

\* C29: every guess that is not empty, not reveal and not a duplicate adds
\* exactly 1 to correctCount + strikeCount, so after at most rowCount + 2
\* such guesses the round is over: it reads no further line and returns
C29_GuessesBounded ==
    /\ [][(pc = "loop" /\ GuessEntered /\ ~DuplicateEntered) =>
             correct' + strikes' = correct + strikes + 1]_vars
    /\ [][(pc = "loop" /\ correct + strikes >= Len(rows) + 2) =>
             pc' = "returned" /\ nread' = nread]_vars
    /\ [](rows # <<>> => correct + strikes <= Len(rows) + 2)

C29_Witness ==
    /\ pc = "returned"
    /\ Len(rows) = 3
    /\ nread = 5
    /\ correct + strikes = 5

\* the round is being played and standard input is at end-of-file
PlayingAtEof == pc = "loop" /\ nread = MaxLines

\* C30: a round whose input is exhausted terminates: from end-of-file in a
\* round that is being played, run_trivia eventually returns a result
C30_EofTerminates == PlayingAtEof ~> (pc = "returned" /\ ret # <<>>)

\* C28: parse_query is deterministic on the built catalog: the candidate
\* keys of an input match at most one entry ignoring case, so the result
\* does not depend on the order the map is iterated in
C28_ParseDeterministic ==
    pc = "parsed" =>
        /\ Cardinality(KeysFor(trim(input))) <= 1
        /\ Cardinality(parse_query(input)) = 1
        /\ parse_query(input) = {parsed}

C28_Witness ==
    /\ pc = "parsed"
    /\ input = <<"t", "o", "p", "1", "0", "r", "u", "s", "h", "i", "n", "g",
                 "q", "b", "_", "y", "e", "a", "r">>
    /\ parsed = <<[kind |-> "Top10RushingQbYear", team |-> <<>>]>>

(***************************************************************************)
(* Properties of the generated question (SpecRequest)                      *)
(***************************************************************************)
\* C21: when parse_query resolves an input with a team t, the prompt and
\* the query generated from the request both name t and the query filters
\* its rows on t; the team is never replaced by a random one nor ignored
C21_TeamReachesQuery ==
    (pc = "generated" /\ parsed[1].team # <<>>) =>
        /\ generated[1].q.team = parsed[1].team
        /\ generated[1].sql.team = parsed[1].team

====
